---- MODULE Spec2Model ----
(***************************************************************************)
(* Model of qParser: the lexer (QParser.tokenize and its consume* rules),  *)
(* the implicit-multiplication expander (QParser.expandMult) and the       *)
(* Binary object (stack construction and minus balancing).                 *)
(*                                                                         *)
(* Strings of the lexer are sequences of one-character strings, so that    *)
(* every slice, comparison and concatenation of the code is computed.      *)
(***************************************************************************)
EXTENDS Integers, Sequences, FiniteSets, TLC

VARIABLES
  src,        \* the string handed to tokenize
  inputStr,   \* tokenize: what is left to scan
  tokenList,  \* tokenize: the tokens appended so far; the list given to
              \* expandMult
  pc,         \* the position of the running call
  output,     \* expandMult: the list returned for tokenList
  output2,    \* expandMult: the list returned for output
  stack,      \* Binary.stack
  remainder,  \* Binary.remainder
  reported,   \* TRUE once the construction of the Binary printed an [ERROR]
  consumed,   \* the pair returned by a consume function called on inputStr
  returned,   \* what _splitOp returned: the chunks and their flags
  lookUpTable,\* Binary.lookUpTable
  drawn,      \* eval: the operands evaluated so far, in the order of evaluation
  value       \* eval: what the call returned

lexVars == <<src, inputStr>>
expVars == <<output, output2>>
binVars == <<stack, remainder, reported>>
conVars == <<consumed, returned>>
evalVars == <<lookUpTable, drawn, value>>
vars == <<src, inputStr, tokenList, pc, output, output2, stack, remainder, reported,
          consumed, returned, lookUpTable, drawn, value>>

-----------------------------------------------------------------------------
(* Bounds of the model *)

MaxWords == 3    \* an input is made of at most MaxWords chunks
MaxExt == 2      \* a reserved name is extended by at most MaxExt letters
MaxTokens == 3   \* expandMult is given at most MaxTokens tokens
MaxChunks == 4   \* a Binary is built from at most MaxChunks chunks of tokens
MaxOps == 7      \* and from at most MaxOps tokens when they are operands and operators
MaxInner == 4    \* a parenthesis of a Binary holds at most MaxInner operands and operators

-----------------------------------------------------------------------------
(* Character classes and the registries of Token *)

Letters ==
  {"a","b","c","d","e","f","g","h","i","j","k","l","m",
   "n","o","p","q","r","s","t","u","v","w","x","y","z",
   "A","B","C","D","E","F","G","H","I","J","K","L","M",
   "N","O","P","Q","R","S","T","U","V","W","X","Y","Z"}

Digits == {"0","1","2","3","4","5","6","7","8","9"}

isAlpha(char) == char \in Letters

isDigit(char) == char \in Digits

constList ==
  { <<"p","i">>, <<"i">>, <<"e","p","s">>, <<"i","n","f">> }

functionsList ==
  { <<"i","d">>, <<"s","i","n">>, <<"c","o","s">>, <<"t","a","n">>,
    <<"e","x","p">>, <<"l","n">>, <<"l","o","g","1","0">>,
    <<"l","o","g","N">>, <<"a","b","s">>, <<"s","q","r","t">>,
    <<"f","l","o","o","r">>, <<"c","e","i","l">>,
    <<"r","o","u","n","d">>, <<"Q">>, <<"s","i","n","c">> }

infixOpsList ==
  { <<"+">>, <<"-">>, <<"*">>, <<"/">>, <<"/","/">>, <<"^">> }

functionsExt == { f \o <<"(">> : f \in functionsList }

reservedNames == constList \cup functionsList

-----------------------------------------------------------------------------
(* Utilities *)

\* split(inputStr, n): the pair (inputStr[0:n], inputStr[n:])
split(s, n) ==
  IF s = <<>> THEN << <<>>, <<>> >>
  ELSE IF n > Len(s) THEN << s, <<>> >>
  ELSE IF n <= 0 THEN << <<>>, s >>
  ELSE << SubSeq(s, 1, n), SubSeq(s, n + 1, Len(s)) >>

\* pop(inputStr): the first character and the tail
pop(s) ==
  IF s = <<>> THEN << <<>>, <<>> >>
  ELSE IF Len(s) = 1 THEN << s, <<>> >>
  ELSE << <<s[1]>>, Tail(s) >>

\* The loop of isNumber over the characters, with its flag
RECURSIVE isNumberLoop(_, _, _)
isNumberLoop(s, k, gotDigit) ==
  IF k > Len(s) THEN TRUE
  ELSE IF s[k] = "." THEN
         IF gotDigit THEN FALSE ELSE isNumberLoop(s, k + 1, TRUE)
  ELSE IF ~isDigit(s[k]) THEN FALSE
  ELSE isNumberLoop(s, k + 1, gotDigit)

isNumber(s) ==
  IF s \in { <<>>, <<".">> } THEN FALSE ELSE isNumberLoop(s, 1, FALSE)

checkVariableSyntax(s) ==
  IF s \in reservedNames THEN FALSE
  ELSE IF s = <<>> THEN FALSE
  ELSE IF ~(isAlpha(s[1]) \/ s[1] = "_") THEN FALSE
  ELSE \A k \in 1..Len(s) : isAlpha(s[k]) \/ isDigit(s[k]) \/ s[k] = "_"

-----------------------------------------------------------------------------
(* The lexer rules *)

None == <<>>   \* what a Python function returns when it falls off its end

\* consumeSpace: the pair split at the first non-blank, None when there is none
RECURSIVE consumeSpaceLoop(_, _)
consumeSpaceLoop(s, n) ==
  IF n >= Len(s) THEN None
  ELSE IF s[n + 1] # " " THEN split(s, n)
  ELSE consumeSpaceLoop(s, n + 1)

consumeSpace(s) == consumeSpaceLoop(s, 0)

\* consumeConst taking the first constant it meets, whatever follows it
RECURSIVE consumeConstFirst(_, _)
consumeConstFirst(s, n) ==
  IF n > Len(s) THEN << <<>>, s >>
  ELSE IF split(s, n)[1] \in constList THEN split(s, n)
  ELSE consumeConstFirst(s, n + 1)

\* consumeConst without rule R5.10: "_" ends a constant as any character
\* that is not a letter does
RECURSIVE consumeConstLoopNoRule(_, _)
consumeConstLoopNoRule(s, n) ==
  IF n > Len(s) THEN << <<>>, s >>
  ELSE IF split(s, n)[1] \in constList THEN
         IF n = Len(s) THEN << split(s, n)[1], <<>> >>
         ELSE IF isAlpha(split(s, n)[2][1]) THEN consumeConstLoopNoRule(s, n + 1)
         ELSE split(s, n)
       ELSE consumeConstLoopNoRule(s, n + 1)

RECURSIVE consumeConstLoop(_, _)
consumeConstLoop(s, n) ==
  IF n > Len(s) THEN << <<>>, s >>
  ELSE LET head == split(s, n)[1]
           tail == split(s, n)[2]
       IN IF head \in constList THEN
            IF n = Len(s) THEN << head, <<>> >>
            ELSE IF tail[1] = "_" THEN << <<>>, s >>
            ELSE IF isAlpha(tail[1]) THEN consumeConstLoop(s, n + 1)
            ELSE << head, tail >>
          ELSE consumeConstLoop(s, n + 1)

consumeConst(s) == consumeConstLoop(s, 1)

\* The greedy loop of consumeNumber: nMax is the last n before the first
\* prefix that is not a number
RECURSIVE consumeNumberLoop(_, _, _)
consumeNumberLoop(s, n, nMax) ==
  IF n > Len(s) THEN nMax
  ELSE IF isNumber(split(s, n)[1]) THEN consumeNumberLoop(s, n + 1, n)
  ELSE nMax

consumeNumber(s) ==
  IF ~(isDigit(s[1]) \/ s[1] = ".") THEN << <<>>, s >>
  ELSE split(s, consumeNumberLoop(s, 1, 0))

\* The longest prefix of s that belongs to names (0 when there is none)
RECURSIVE longestIn(_, _, _, _)
longestIn(s, names, n, nMax) ==
  IF n > Len(s) THEN nMax
  ELSE longestIn(s, names, n + 1, IF split(s, n)[1] \in names THEN n ELSE nMax)

\* consumeFunc leaving the opening parenthesis in the tail
consumeFuncKeepBracket(s) ==
  LET nMax == longestIn(s, functionsExt, 1, 0)
  IN IF nMax = 0 THEN << <<>>, s >> ELSE split(s, nMax - 1)

consumeFunc(s) ==
  LET nMax == longestIn(s, functionsExt, 1, 0)
      tmpHead == split(s, nMax)[1]
      tmpTail == split(s, nMax)[2]
  IN << IF tmpHead = <<>> THEN <<>> ELSE SubSeq(tmpHead, 1, Len(tmpHead) - 1),
        tmpTail >>

\* The scan of consumeVar without rule R5.5: a digit goes on the name
\* whatever number it starts
RECURSIVE consumeVarLoopGreedy(_, _)
consumeVarLoopGreedy(s, n) ==
  IF n = Len(s) THEN << s, <<>> >>
  ELSE IF isAlpha(s[n + 1]) \/ s[n + 1] = "_" \/ isDigit(s[n + 1])
       THEN consumeVarLoopGreedy(s, n + 1)
       ELSE split(s, n)

\* The scan of consumeVar: the pair its loop leaves in the local <output>
RECURSIVE consumeVarLoop(_, _)
consumeVarLoop(s, n) ==
  LET head == split(s, n)[1]
      tail == split(s, n)[2]
  IN IF n = Len(s) THEN << head, <<>> >>
     ELSE IF isAlpha(tail[1]) \/ tail[1] = "_" THEN consumeVarLoop(s, n + 1)
     ELSE IF isDigit(tail[1]) THEN
            IF \E k \in 1..Len(consumeNumber(tail)[1]) :
                 consumeNumber(tail)[1][k] = "."
            THEN << head, tail >>
            ELSE consumeVarLoop(s, n + 1)
     ELSE << head, tail >>

\* consumeVar without the filter on reserved names
consumeVarUnfiltered(s) ==
  IF ~(isAlpha(s[1]) \/ s[1] = "_") THEN << <<>>, s >>
  ELSE consumeVarLoop(s, 1)

consumeVar(s) ==
  IF ~(isAlpha(s[1]) \/ s[1] = "_") THEN << <<>>, s >>
  ELSE LET found == consumeVarLoop(s, 1)
       IN IF found[1] \notin reservedNames THEN found ELSE << <<>>, s >>

consumeInfix(s) == split(s, longestIn(s, infixOpsList, 1, 0))

\* Token(name): the type is inferred from the name
Token(name) ==
  [ type |->
      IF name \in constList THEN "CONSTANT"
      ELSE IF name \in functionsList THEN "FUNCTION"
      ELSE IF name \in infixOpsList THEN "INFIX"
      ELSE IF checkVariableSyntax(name) THEN "VAR"
      ELSE IF name = <<"(">> THEN "BRKT_OPEN"
      ELSE IF name = <<")">> THEN "BRKT_CLOSE"
      ELSE IF name = <<",">> THEN "COMMA"
      ELSE IF isNumber(name) THEN "NUMBER"
      ELSE "INVALID",
    name |-> name ]

-----------------------------------------------------------------------------
(* tokenize *)

\* The rule dispatch of one loop iteration: the tokens to append and the
\* string left to scan. When no branch applies, nothing is assigned.
dispatch(s) ==
  LET number   == consumeNumber(s)
      constant == consumeConst(s)
      function == consumeFunc(s)
      variable == consumeVar(s)
      infix    == consumeInfix(s)
      head     == pop(s)[1]
      tail     == pop(s)[2]
  IN IF number[1] # <<>> THEN
       [ tokens |-> << Token(number[1]) >>, rest |-> number[2] ]
     ELSE IF constant[1] # <<>> THEN
       [ tokens |-> << Token(constant[1]) >>, rest |-> constant[2] ]
     ELSE IF function[1] # <<>> THEN
       [ tokens |-> << Token(function[1]), Token(<<"(">>) >>, rest |-> function[2] ]
     ELSE IF variable[1] # <<>> THEN
       [ tokens |-> << Token(variable[1]) >>, rest |-> variable[2] ]
     ELSE IF infix[1] # <<>> THEN
       [ tokens |-> << Token(infix[1]) >>, rest |-> infix[2] ]
     ELSE IF head \in { <<"(">>, <<")">>, <<",">> } THEN
       [ tokens |-> << Token(head) >>, rest |-> tail ]
     ELSE
       [ tokens |-> <<>>, rest |-> s ]

\* A whole call of tokenize: "done" with the list it returns, "crash" when
\* the result of consumeSpace cannot be unpacked, "hang" when an iteration
\* assigns nothing (the loop then repeats it for ever)
RECURSIVE tokenizeFrom(_, _)
tokenizeFrom(s, toks) ==
  IF Len(s) = 0 THEN [ status |-> "done", tokenList |-> toks ]
  ELSE IF consumeSpace(s) = None THEN [ status |-> "crash", tokenList |-> toks ]
  ELSE LET d == dispatch(consumeSpace(s)[2])
       IN IF d.tokens = <<>> THEN [ status |-> "hang", tokenList |-> toks ]
          ELSE tokenizeFrom(d.rest, toks \o d.tokens)

tokenize(s) == tokenizeFrom(s, <<>>)

\* while (len(inputStr) > 0): consumeSpace, whose result is unpacked
TokWhile ==
  /\ pc = "while"
  /\ IF Len(inputStr) = 0 THEN
       /\ pc' = "done"
       /\ inputStr' = inputStr
     ELSE IF consumeSpace(inputStr) = None THEN
       /\ pc' = "crash"            \* TypeError: cannot unpack None
       /\ inputStr' = inputStr
     ELSE
       /\ inputStr' = consumeSpace(inputStr)[2]
       /\ pc' = IF Len(inputStr') = 0 THEN "done" ELSE "body"
  /\ UNCHANGED <<src, tokenList, expVars, binVars, conVars, evalVars>>

\* The five consume* calls and the if/elif chain, then back to the loop test
TokBody ==
  /\ pc = "body"
  /\ tokenList' = tokenList \o dispatch(inputStr).tokens
  /\ inputStr' = dispatch(inputStr).rest
  /\ pc' = "while"
  /\ UNCHANGED <<src, expVars, binVars, conVars, evalVars>>

-----------------------------------------------------------------------------
(* The inputs of tokenize *)

\* The chunks an input is made of
Chunks ==
  { <<"p","i">>, <<"i">>, <<"x">>, <<"a">>, <<"s","i","n">>, <<"t","a","n">>,
    <<"(">>, <<")">>, <<",">>, <<" ">>, <<"2">>, <<".">>, <<"-">>, <<"/">>,
    <<"_">>, <<"$">> }

RECURSIVE Flatten(_)
Flatten(ss) == IF ss = <<>> THEN <<>> ELSE Head(ss) \o Flatten(Tail(ss))

ChunkInputs ==
  { Flatten(w) : w \in UNION { [1..n -> Chunks] : n \in 0..MaxWords } }

\* The letters a reserved name is extended with
ExtLetters == { "a", "c", "i", "p", "x" }

\* What may follow a name without extending it, '(' left out
Delims == { " ", ")", ",", "+", "-", "*", "/", "^" }

\* A function name, then the end of the input or a delimiter and a tail
FuncWords ==
  functionsList \cup
  { f \o <<d>> \o t : f \in functionsList, d \in Delims,
                      t \in { <<>>, <<"x">>, <<"(", "x">> } }

ExtWords ==
  { r \o w : r \in reservedNames,
             w \in UNION { [1..n -> ExtLetters] : n \in 1..MaxExt } }

Inputs == ChunkInputs \cup ExtWords \cup FuncWords

Init ==
  /\ src \in Inputs
  /\ inputStr = src
  /\ tokenList = <<>>
  /\ pc = "while"
  /\ output = <<>>
  /\ output2 = <<>>
  /\ stack = <<>>
  /\ remainder = <<>>
  /\ reported = FALSE
  /\ consumed = <<>>
  /\ returned = <<>>
  /\ lookUpTable = <<>>
  /\ drawn = <<>>
  /\ value = <<>>

Next == TokWhile \/ TokBody

Spec == Init /\ [][Next]_vars

-----------------------------------------------------------------------------
(* expandMult *)

\* The cases of the match statement that append a multiplication token
multCases ==
  { <<"CONSTANT", "BRKT_OPEN">>, <<"VAR", "BRKT_OPEN">>, <<"VAR", "NUMBER">>,
    <<"BRKT_CLOSE", "CONST">>, <<"BRKT_CLOSE", "FUNCTION">>,
    <<"BRKT_CLOSE", "VAR">>, <<"BRKT_CLOSE", "BRKT_OPEN">>,
    <<"BRKT_CLOSE", "NUMBER">>, <<"NUMBER", "CONST">>,
    <<"NUMBER", "FUNCTION">>, <<"NUMBER", "VAR">>, <<"NUMBER", "BRKT_OPEN">> }

\* A match statement with one more case, for a number before an infix
matchPairLoose(tokA, tokB) ==
  <<tokA.type, tokB.type>> \in multCases \cup { <<"NUMBER", "INFIX">> }

\* match (tokA.type, tokB.type): TRUE when the case appends Token("*")
matchPair(tokA, tokB) == <<tokA.type, tokB.type>> \in multCases

\* The for loop over the pairs (input[n], input[n+1]), n counted from 1
RECURSIVE expandMultLoop(_, _)
expandMultLoop(input, n) ==
  IF n > Len(input) - 1 THEN <<>>
  ELSE << input[n] >>
       \o (IF matchPair(input[n], input[n + 1]) THEN << Token(<<"*">>) >> ELSE <<>>)
       \o expandMultLoop(input, n + 1)

expandMult(input) ==
  IF Len(input) <= 1 THEN input
  ELSE expandMultLoop(input, 1) \o << input[Len(input)] >>

\* One token of each type
TokenKinds ==
  { Token(<<"2">>), Token(<<"p","i">>), Token(<<"x">>), Token(<<"s","i","n">>),
    Token(<<"-">>), Token(<<"(">>), Token(<<")">>), Token(<<",">>) }

TokenLists == UNION { [1..n -> TokenKinds] : n \in 0..MaxTokens }

InitExpand ==
  /\ tokenList \in TokenLists
  /\ pc = "expand"
  /\ output = <<>>
  /\ output2 = <<>>
  /\ src = <<>>
  /\ inputStr = <<>>
  /\ stack = <<>>
  /\ remainder = <<>>
  /\ reported = FALSE
  /\ consumed = <<>>
  /\ returned = <<>>
  /\ lookUpTable = <<>>
  /\ drawn = <<>>
  /\ value = <<>>

\* output = expandMult(tokenList)
ExpandMult ==
  /\ pc = "expand"
  /\ output' = expandMult(tokenList)
  /\ pc' = "expanded"
  /\ UNCHANGED <<tokenList, output2, lexVars, binVars, conVars, evalVars>>

\* The expander run on its own output
ExpandMultAgain ==
  /\ pc = "expanded"
  /\ output2' = expandMult(output)
  /\ pc' = "expandedTwice"
  /\ UNCHANGED <<tokenList, output, lexVars, binVars, conVars, evalVars>>

NextExpand == ExpandMult \/ ExpandMultAgain

SpecExpand == InitExpand /\ [][NextExpand]_vars

-----------------------------------------------------------------------------
(* Binary: the nodes *)

\* The element of a set of one element: { e : x \in {v} } evaluates v once,
\* where a LET would evaluate it at each use
Only(S) == CHOOSE e \in S : TRUE

\* A token of the symbols module: its type and name. Every node carries
\* <args>, empty but for a Macroleaf.
Tok(type, name) == [ type |-> type, name |-> name, args |-> <<>> ]

\* A Macroleaf node: the function and the stacks of its argument Binaries
Macro(function, args) == [ type |-> "MACRO", name |-> function, args |-> args ]

\* The number of arguments of a function
nArgs(function) == IF function \in {"Q", "logN"} THEN 2 ELSE 1

\* The priority of an infix operator
priority(name) ==
  IF name \in {"+", "-"} THEN 1
  ELSE IF name \in {"*", "/", "//"} THEN 2
  ELSE 3

isInfix(node, name) == node.type = "INFIX" /\ node.name = name

-----------------------------------------------------------------------------
(* Binary._buildStack and the construction of a Macroleaf *)

RECURSIVE buildStack(_)
RECURSIVE macroArgs(_, _, _)

\* Macroleaf(function, tokenList): one sub-build per argument, the next one
\* on the remainder of the last when a comma stopped it; the number of
\* arguments collected must be the one of the function.
\* Gives the node, the tokens left after the closing bracket and the errors.
Macroleaf(function, toks) ==
  Only({ [ node      |-> Macro(function, r.args),
           remainder |-> r.remainder,
           reported  |-> r.reported,
           arityOk   |-> r.arityOk /\ Len(r.args) = nArgs(function) ]
         : r \in { macroArgs(toks, <<>>, FALSE) } })

\* The token that stopped a sub-build of toks which left rem
stoppedBy(toks, rem) ==
  IF toks = <<>> THEN "END" ELSE toks[Len(toks) - Len(rem)].type

macroArgs(toks, args, rep) ==
  Only({ IF stoppedBy(toks, b.remainder) = "COMMA" THEN
           [ macroArgs(b.remainder, Append(args, b.stack), rep \/ b.reported)
               EXCEPT !.arityOk = @ /\ b.arityOk ]
         ELSE [ args      |-> Append(args, b.stack),
                remainder |-> b.remainder,
                reported  |-> rep \/ b.reported,
                arityOk   |-> b.arityOk ]
         : b \in { buildStack(toks) } })

\* _buildStack(tokenList): what the call and the calls it makes push to the
\* stack, the remainder they leave ([] when none assigns it), whether one
\* of them printed an error, whether every Macroleaf got its arguments
buildStack(toks) ==
  IF Len(toks) >= 2 THEN
    LET currToken == toks[1]
        tail == Tail(toks)
    IN IF currToken.type \in {"CONSTANT", "VAR", "NUMBER", "INFIX", "MACRO"} THEN
         [ buildStack(tail) EXCEPT !.stack = << currToken >> \o @ ]
       ELSE IF currToken.type \in {"FUNCTION", "BRKT_OPEN"} THEN
         Only({ [ buildStack(M.remainder) EXCEPT
                    !.stack = << M.node >> \o @,
                    !.reported = M.reported \/ @,
                    !.arityOk = M.arityOk /\ @ ]
                : M \in { IF currToken.type = "FUNCTION"
                          THEN Macroleaf(currToken.name, Tail(tail))
                          ELSE Macroleaf("id", tail) } })
       ELSE IF currToken.type \in {"COMMA", "BRKT_CLOSE"} THEN
         [ stack |-> <<>>, remainder |-> tail, reported |-> FALSE, arityOk |-> TRUE ]
       ELSE
         [ stack |-> <<>>, remainder |-> <<>>, reported |-> TRUE, arityOk |-> TRUE ]
  ELSE IF Len(toks) = 1 THEN
    IF toks[1].type \in {"CONSTANT", "VAR", "NUMBER", "MACRO"} THEN
      [ stack |-> toks, remainder |-> <<>>, reported |-> FALSE, arityOk |-> TRUE ]
    ELSE IF toks[1].type = "BRKT_CLOSE" THEN
      [ stack |-> <<>>, remainder |-> <<>>, reported |-> FALSE, arityOk |-> TRUE ]
    ELSE
      [ stack |-> <<>>, remainder |-> <<>>, reported |-> TRUE, arityOk |-> TRUE ]
  ELSE
    [ stack |-> <<>>, remainder |-> <<>>, reported |-> FALSE, arityOk |-> TRUE ]

-----------------------------------------------------------------------------
(* Binary._balanceMinus: _explicitZeros, then _minusAsOpp *)

RECURSIVE explicitZeros(_)
RECURSIVE explicitZerosEach(_)

\* Macroleaf._explicitZeros / a for loop over nodes: the pass on every
\* argument Binary of every Macroleaf of the list
explicitZerosEach(nodes) ==
  IF nodes = <<>> THEN <<>>
  ELSE << IF Head(nodes).type = "MACRO"
          THEN [ Head(nodes) EXCEPT !.args =
                   [ k \in 1..Len(@) |-> explicitZeros(@[k]) ] ]
          ELSE Head(nodes) >>
       \o explicitZerosEach(Tail(nodes))

\* _explicitZeros giving a left operand to any leading infix operator
explicitZerosAnyInfix(stk) ==
  explicitZerosEach(
    IF Len(stk) >= 2 /\ stk[1].type = "INFIX" THEN << Tok("NUMBER", "0") >> \o stk
    ELSE stk)

explicitZeros(stk) ==
  explicitZerosEach(
    IF Len(stk) >= 2 /\ isInfix(stk[1], "-") THEN << Tok("NUMBER", "0") >> \o stk
    ELSE stk)

RECURSIVE minusAsOpp(_)

\* One iteration of the while loop of _minusAsOpp at index n (from 0):
\* the next index and the new stack, or the IndexError of stack[n+2]
oppIteration(stk, n, newStack) ==
  LET nElements == Len(stk)
      eltA == stk[n + 1]
      eltB == stk[n + 2]
  IN IF eltA.type = "INFIX" /\ eltB.type = "INFIX" THEN
       IF eltA.name = "^" /\ eltB.name = "-" THEN
         IF (n + 2) > (nElements - 1)
         THEN [ n |-> n, newStack |-> newStack, status |-> "crash", reported |-> TRUE ]
         ELSE LET M == Macroleaf("opp", << stk[n + 3] >>)
              IN [ n |-> n + 3, newStack |-> newStack \o << eltA, M.node >>,
                   status |-> "run", reported |-> M.reported ]
       ELSE [ n |-> n, newStack |-> newStack, status |-> "run", reported |-> FALSE ]
     ELSE IF n = nElements - 2 THEN
       [ n |-> n + 1, newStack |-> newStack \o << eltA, eltB >>,
         status |-> "run", reported |-> FALSE ]
     ELSE
       [ n |-> n + 1, newStack |-> Append(newStack, eltA),
         status |-> "run", reported |-> FALSE ]

\* while (n <= (nElements-2)): "done" with the new stack, "crash", or
\* "hang" when an iteration changes neither n nor newStack
RECURSIVE oppLoop(_, _, _, _)
oppLoop(stk, n, newStack, rep) ==
  IF ~(n <= Len(stk) - 2) THEN
    [ status |-> "done", stack |-> newStack, reported |-> rep ]
  ELSE Only({ IF it.status = "crash" THEN
                [ status |-> "crash", stack |-> stk, reported |-> TRUE ]
              ELSE IF it.n = n /\ it.newStack = newStack THEN
                [ status |-> "hang", stack |-> stk, reported |-> rep ]
              ELSE oppLoop(stk, it.n, it.newStack, rep \/ it.reported)
              : it \in { oppIteration(stk, n, newStack) } })

\* Macroleaf._minusAsOpp on the Macroleaves of a stack of less than 4 nodes:
\* the pass on every argument Binary, in order, up to the first call that
\* does not return
RECURSIVE oppArgs(_, _)
oppArgs(args, acc) ==
  IF args = <<>> THEN [ status |-> "done", args |-> acc, reported |-> FALSE ]
  ELSE Only({ IF r.status # "done"
              THEN [ status |-> r.status, args |-> acc, reported |-> r.reported ]
              ELSE [ oppArgs(Tail(args), Append(acc, r.stack))
                       EXCEPT !.reported = @ \/ r.reported ]
              : r \in { minusAsOpp(Head(args)) } })

RECURSIVE oppEach(_, _)
oppEach(nodes, acc) ==
  IF nodes = <<>> THEN [ status |-> "done", stack |-> acc, reported |-> FALSE ]
  ELSE IF Head(nodes).type # "MACRO" THEN oppEach(Tail(nodes), Append(acc, Head(nodes)))
  ELSE Only({ IF r.status # "done"
              THEN [ status |-> r.status, stack |-> acc, reported |-> r.reported ]
              ELSE [ oppEach(Tail(nodes), Append(acc, [ Head(nodes) EXCEPT !.args = r.args ]))
                       EXCEPT !.reported = @ \/ r.reported ]
              : r \in { oppArgs(Head(nodes).args, <<>>) } })

minusAsOpp(stk) ==
  IF Len(stk) >= 4 THEN oppLoop(stk, 0, <<>>, FALSE)
  ELSE oppEach(stk, <<>>)

-----------------------------------------------------------------------------
(* The token lists a Binary is built from, and Binary.__init__ *)

\* A function comes with its opening bracket, as tokenize emits it
BinChunks ==
  { << Tok("NUMBER", "2") >>, << Tok("VAR", "x") >>,
    << Tok("INFIX", "-") >>, << Tok("INFIX", "^") >>, << Tok("INFIX", "*") >>,
    << Tok("BRKT_OPEN", "(") >>, << Tok("BRKT_CLOSE", ")") >>, << Tok("COMMA", ",") >>,
    << Tok("FUNCTION", "sin"), Tok("BRKT_OPEN", "(") >>,
    << Tok("FUNCTION", "Q"), Tok("BRKT_OPEN", "(") >> }

OpTokens ==
  { Tok("NUMBER", "2"), Tok("INFIX", "-"), Tok("INFIX", "^"), Tok("INFIX", "*") }

\* A parenthesis of operands and operators, alone or as the last operand of
\* a product of three
GroupedInputs ==
  { pre \o << Tok("BRKT_OPEN", "(") >> \o w \o << Tok("BRKT_CLOSE", ")") >> :
      pre \in { <<>>, << Tok("NUMBER", "2"), Tok("INFIX", "*"),
                        Tok("NUMBER", "2"), Tok("INFIX", "*") >> },
      w \in UNION { [1..k -> OpTokens] : k \in 0..MaxInner } }

BinInputs ==
  { Flatten(w) : w \in UNION { [1..k -> BinChunks] : k \in 0..MaxChunks } }
  \cup UNION { [1..k -> OpTokens] : k \in 0..MaxOps }
  \cup GroupedInputs

InitBinary ==
  /\ tokenList \in BinInputs
  /\ pc = "init"
  /\ stack = <<>>
  /\ remainder = <<>>
  /\ reported = FALSE
  /\ consumed = <<>>
  /\ returned = <<>>
  /\ lookUpTable = <<>>
  /\ drawn = <<>>
  /\ value = <<>>
  /\ output = <<>>
  /\ output2 = <<>>
  /\ src = <<>>
  /\ inputStr = <<>>

\* Binary.__init__ going on after a Macroleaf that did not get its number
\* of arguments
BuildStackAnyArity ==
  /\ pc = "init"
  /\ IF Len(tokenList) >= 1 THEN
       \E b \in { buildStack(tokenList) } :
          /\ stack' = b.stack
          /\ remainder' = b.remainder
          /\ reported' = b.reported
          /\ pc' = "built"
     ELSE
       /\ pc' = "balanced"
       /\ UNCHANGED binVars
  /\ UNCHANGED <<tokenList, lexVars, expVars, conVars, evalVars>>

\* Binary.__init__ with a _buildStack that never assigns the remainder
BuildStackNoRemainder ==
  /\ pc = "init"
  /\ IF Len(tokenList) >= 1 THEN
       \E b \in { buildStack(tokenList) } :
          /\ stack' = b.stack
          /\ remainder' = <<>>
          /\ reported' = (b.reported \/ ~b.arityOk)
          /\ pc' = IF b.arityOk THEN "built" ELSE "failed"
     ELSE
       /\ pc' = "balanced"
       /\ UNCHANGED binVars
  /\ UNCHANGED <<tokenList, lexVars, expVars, conVars, evalVars>>

\* Binary.__init__, up to the return of _buildStack; a Macroleaf that does
\* not get its number of arguments ends the construction
BuildStack ==
  /\ pc = "init"
  /\ IF Len(tokenList) >= 1 THEN
       \E b \in { buildStack(tokenList) } :
          /\ stack' = b.stack
          /\ remainder' = b.remainder
          /\ reported' = (b.reported \/ ~b.arityOk)
          /\ pc' = IF b.arityOk THEN "built" ELSE "failed"
     ELSE
       /\ pc' = "balanced"
       /\ UNCHANGED binVars
  /\ UNCHANGED <<tokenList, lexVars, expVars, conVars, evalVars>>

\* _balanceMinus, first pass
ExplicitZeros ==
  /\ pc = "built"
  /\ stack' = explicitZeros(stack)
  /\ pc' = "zeroed"
  /\ UNCHANGED <<tokenList, remainder, reported, lexVars, expVars, conVars, evalVars>>

\* _balanceMinus, second pass; the stack is assigned when the loop is left
MinusAsOpp ==
  /\ pc = "zeroed"
  /\ \E r \in { minusAsOpp(stack) } :
        /\ pc' = IF r.status = "done" THEN "balanced" ELSE r.status
        /\ stack' = IF r.status = "done" THEN r.stack ELSE stack
        /\ reported' = (reported \/ r.reported)
  /\ UNCHANGED <<tokenList, remainder, lexVars, expVars, conVars, evalVars>>

NextBinary == BuildStack \/ ExplicitZeros \/ MinusAsOpp

SpecBinary == InitBinary /\ [][NextBinary]_vars

-----------------------------------------------------------------------------
(* Properties of the lexer *)

NoSpaces(s) == SelectSeq(s, LAMBDA c : c # " ")

RECURSIVE NamesOf(_)
NamesOf(toks) ==
  IF toks = <<>> THEN <<>> ELSE Head(toks).name \o NamesOf(Tail(toks))

HasType(toks, type) == \E k \in 1..Len(toks) : toks[k].type = type

\* C1: when tokenize returns, the names of its tokens, concatenated in
\* order (a function call gives the name and one "("), are the input with
\* its spaces removed.
C1_RoundTrip ==
  pc = "done" => NamesOf(tokenList) = NoSpaces(src)

C1_Witness ==
  /\ pc = "done"
  /\ HasType(tokenList, "FUNCTION")
  /\ Len(tokenList) >= 2
  /\ \E k \in 1..Len(src) : src[k] = " "

\* No lexer rule matches at the head of s
NoRuleMatches(s) ==
  /\ consumeNumber(s)[1] = <<>>
  /\ consumeConst(s)[1] = <<>>
  /\ consumeFunc(s)[1] = <<>>
  /\ consumeVar(s)[1] = <<>>
  /\ consumeInfix(s)[1] = <<>>
  /\ s[1] \notin { "(", ")", "," }

\* C2 as stated: an iteration at which no rule matches ends the scan (with
\* a lexing error); the loop is not entered again.
C2_NoMatchStops ==
  [][(pc = "body" /\ NoRuleMatches(inputStr)) => pc' \notin {"while", "body"}]_vars

\* s is a reserved name followed by one letter or more, and not a reserved name
IsExtWord(s) ==
  /\ s \notin reservedNames
  /\ \E r \in reservedNames :
       /\ Len(r) < Len(s)
       /\ SubSeq(s, 1, Len(r)) = r
       /\ \A k \in (Len(r) + 1)..Len(s) : isAlpha(s[k])

VarToken(name) == [ type |-> "VAR", name |-> name ]

\* C3: a reserved name extended by letters (and not reserved itself) is
\* tokenized as one VAR token holding the whole word; no token is ever
\* emitted for the prefix, every iteration matches, and the call returns.
C3_LongestMatch ==
  IsExtWord(src) =>
    /\ pc # "crash"
    /\ tokenList \in { <<>>, << VarToken(src) >> }
    /\ tokenList = <<>> => inputStr = src
    /\ tokenList # <<>> => inputStr = <<>>
    /\ pc = "body" => dispatch(inputStr).tokens = << VarToken(src) >>
    /\ pc = "done" => tokenList = << VarToken(src) >>

C3_Witness ==
  /\ pc = "done"
  /\ IsExtWord(src)
  /\ \E r \in constList : SubSeq(src, 1, Len(r)) = r
  /\ tokenList = << VarToken(src) >>

\* s starts with the function name f, which the end of the input or a
\* delimiter other than "(" follows
FuncNotCalled(s, f) ==
  /\ Len(f) <= Len(s)
  /\ SubSeq(s, 1, Len(f)) = f
  /\ Len(s) > Len(f) => s[Len(f) + 1] \in Delims

RECURSIVE Trim(_)
Trim(s) ==
  IF s = <<>> THEN s
  ELSE IF Head(s) = " " THEN Trim(Tail(s))
  ELSE IF s[Len(s)] = " " THEN Trim(SubSeq(s, 1, Len(s) - 1))
  ELSE s

\* C5 as stated, for an expression of one token or more: spaces before the
\* first token or after the last one change nothing; when tokenize returns
\* on the input without them, the call on the input returns the same list.
C5_SpacesIgnored ==
  (/\ pc \in {"done", "crash"}
   /\ Trim(src) # <<>>
   /\ tokenize(Trim(src)).status = "done") =>
    /\ pc = "done"
    /\ tokenList = tokenize(Trim(src)).tokenList

-----------------------------------------------------------------------------
(* Properties of expandMult *)

\* The pairs of token types between which the product is implicit
ImplicitProducts ==
  ({"CONSTANT", "VAR", "NUMBER"} \X {"BRKT_OPEN"})
  \cup ({"BRKT_CLOSE"} \X {"CONSTANT", "VAR", "NUMBER", "FUNCTION", "BRKT_OPEN"})
  \cup ({"NUMBER"} \X {"CONSTANT", "VAR", "FUNCTION", "BRKT_OPEN"})
  \cup {<<"VAR", "NUMBER">>}

\* toks with a multiplication token between the adjacent pairs of
\* ImplicitProducts, and between no others
RECURSIVE WithProducts(_)
WithProducts(toks) ==
  IF Len(toks) <= 1 THEN toks
  ELSE << toks[1] >>
       \o (IF <<toks[1].type, toks[2].type>> \in ImplicitProducts
           THEN << [type |-> "INFIX", name |-> <<"*">>] >> ELSE <<>>)
       \o WithProducts(Tail(toks))

\* C6 as stated: expandMult inserts a multiplication token between the
\* adjacent pairs of the list of the claim and only there, and keeps every
\* input token in order.
C6_ExpandPatterns ==
  pc \in {"expanded", "expandedTwice"} => output = WithProducts(tokenList)

\* C7: running expandMult on its own output returns that output.
C7_Idempotent ==
  pc = "expandedTwice" => output2 = output

C7_Witness ==
  /\ pc = "expandedTwice"
  /\ Len(output) > Len(tokenList) + 1
  /\ output2 = output

-----------------------------------------------------------------------------
(* Properties of the Binary *)

IsOperand(node) == node.type \in {"NUMBER", "VAR", "CONSTANT", "MACRO"}

\* Odd length, an operand at every even index (from 0) and an infix
\* operator at every odd one, in the stack and in every argument below it
RECURSIVE Alternates(_)
Alternates(stk) ==
  /\ Len(stk) % 2 = 1
  /\ \A k \in 1..Len(stk) :
       IF k % 2 = 1
       THEN /\ IsOperand(stk[k])
            /\ \A a \in 1..Len(stk[k].args) : Alternates(stk[k].args[a])
       ELSE stk[k].type = "INFIX"

\* C8 as stated: a Binary that __init__ built and balanced without
\* reporting an error has, at every depth, a stack of odd length that
\* alternates operand and infix operator.
C8_Alternation ==
  (pc = "balanced" /\ ~reported /\ tokenList # <<>>) => Alternates(stack)

\* The same nodes in the same order: type, name and number of arguments
SameNodes(a, b) ==
  /\ Len(a) = Len(b)
  /\ \A k \in 1..Len(a) :
       /\ a[k].type = b[k].type
       /\ a[k].name = b[k].name
       /\ Len(a[k].args) = Len(b[k].args)

Zero == Tok("NUMBER", "0")

\* C9 as stated: _explicitZeros prepends a zero to a stack that starts
\* with "-" and leaves any other stack as it is.
C9_ZeroBeforeMinus ==
  [][(pc = "built" /\ pc' = "zeroed") =>
       IF stack # <<>> /\ isInfix(stack[1], "-")
       THEN SameNodes(stack', << Zero >> \o stack) /\ stack'[1] = Zero
       ELSE SameNodes(stack', stack)]_vars

\* C9 amended: _explicitZeros prepends a zero to a stack of two nodes or
\* more that starts with "-"; a stack that does not start with "-", and a
\* stack that holds a lone "-", are left as they are.
C9_ZeroBeforeMinusOfTwo ==
  [][(pc = "built" /\ pc' = "zeroed") =>
       IF Len(stack) >= 2 /\ isInfix(stack[1], "-")
       THEN SameNodes(stack', << Zero >> \o stack) /\ stack'[1] = Zero
       ELSE SameNodes(stack', stack)]_vars

C9_Witness ==
  /\ pc = "zeroed"
  /\ isInfix(tokenList[1], "-")
  /\ Len(stack) >= 3
  /\ stack[1] = Zero /\ isInfix(stack[2], "-") /\ IsOperand(stack[3])

\* What may follow an operand in an expression whose leading minus has been
\* balanced: nothing, or an operator and an operand, or an operator other
\* than "-", a "-" and an operand (rules R7.1 and R7.2)
RECURSIVE OperatorsFollow(_)
OperatorsFollow(r) ==
  \/ r = <<>>
  \/ /\ Len(r) >= 2
     /\ r[1].type = "INFIX"
     /\ IsOperand(r[2])
     /\ OperatorsFollow(SubSeq(r, 3, Len(r)))
  \/ /\ Len(r) >= 3
     /\ r[1].type = "INFIX" /\ r[1].name # "-"
     /\ isInfix(r[2], "-")
     /\ IsOperand(r[3])
     /\ OperatorsFollow(SubSeq(r, 4, Len(r)))

BalancedExpression(stk) ==
  /\ stk # <<>>
  /\ IsOperand(stk[1])
  /\ OperatorsFollow(Tail(stk))

HasPowerMinus(stk) ==
  \E k \in 1..(Len(stk) - 2) :
    isInfix(stk[k], "^") /\ isInfix(stk[k + 1], "-") /\ IsOperand(stk[k + 2])

\* stk with every "^", "-", X replaced by "^", Macroleaf("opp", [X])
RECURSIVE OppWrapped(_)
OppWrapped(stk) ==
  IF stk = <<>> THEN <<>>
  ELSE IF /\ Len(stk) >= 3
          /\ isInfix(stk[1], "^") /\ isInfix(stk[2], "-") /\ IsOperand(stk[3])
       THEN << stk[1], Macro("opp", << << stk[3] >> >>) >>
            \o OppWrapped(SubSeq(stk, 4, Len(stk)))
       ELSE << stk[1] >> \o OppWrapped(Tail(stk))

\* C10 as stated, for the stack of an expression: when the stack holds
\* "^", "-", X, _minusAsOpp returns and has replaced each of them by "^",
\* Macroleaf("opp", [X]), every other node kept in order.
C10_PowerMinusWrapped ==
  [][(pc = "zeroed" /\ BalancedExpression(stack) /\ HasPowerMinus(stack)) =>
       (pc' = "balanced" /\ stack' = OppWrapped(stack))]_vars

HasInfixMinus(stk) ==
  \E k \in 1..(Len(stk) - 2) :
    /\ stk[k].type = "INFIX" /\ stk[k].name \notin {"^", "-"}
    /\ isInfix(stk[k + 1], "-") /\ IsOperand(stk[k + 2])

\* stk with every op, "-", X replaced by op, Macroleaf("opp", [X]), op being
\* any infix operator but "-"
RECURSIVE OppWrappedAny(_)
OppWrappedAny(stk) ==
  IF stk = <<>> THEN <<>>
  ELSE IF /\ Len(stk) >= 3
          /\ stk[1].type = "INFIX" /\ stk[1].name # "-"
          /\ isInfix(stk[2], "-") /\ IsOperand(stk[3])
       THEN << stk[1], Macro("opp", << << stk[3] >> >>) >>
            \o OppWrappedAny(SubSeq(stk, 4, Len(stk)))
       ELSE << stk[1] >> \o OppWrappedAny(Tail(stk))

\* C11 as stated, for the stack of an expression: when an operator other
\* than "^" is followed by "-" and an operand X, _minusAsOpp completes and
\* has replaced op, "-", X by op, Macroleaf("opp", [X]).
C11_InfixMinusWrapped ==
  [][(pc = "zeroed" /\ BalancedExpression(stack) /\ HasInfixMinus(stack)) =>
       (pc' = "balanced" /\ stack' = OppWrappedAny(stack))]_vars

-----------------------------------------------------------------------------
(* Binary.nest *)

MaxFlat == 7     \* a bracket-free token list has at most MaxFlat tokens
MaxGroup == 5    \* a bracketed group holds at most MaxGroup tokens

SetMin(S) == CHOOSE x \in S : \A y \in S : x <= y
SetMax(S) == CHOOSE x \in S : \A y \in S : x >= y

\* The priorities of the infix operators of a list of nodes
Priorities(elementList) ==
  { priority(elementList[k].name) :
      k \in { j \in 1..Len(elementList) : elementList[j].type = "INFIX" } }

\* _getPriorityRange(elementList): (minPriority, maxPriority)
getPriorityRange(elementList) ==
  << SetMin(Priorities(elementList) \cup {100}),
     SetMax(Priorities(elementList) \cup {-1}) >>

\* STEP 1 flagging a top operator and the node after it only
topIndicesNoLeft(elts, prio) ==
  UNION { { k, k + 1 } :
            k \in { j \in 1..Len(elts) :
                      /\ elts[j].type = "INFIX"
                      /\ priority(elts[j].name) = prio } }

\* _splitOp, STEP 1: the indices (from 1) where isTopElement is True. The
\* index before the first node is the last one, as Python reads a list at -1.
topIndices(elts, prio) ==
  UNION { { IF k = 1 THEN Len(elts) ELSE k - 1, k, k + 1 } :
            k \in { j \in 1..Len(elts) :
                      /\ elts[j].type = "INFIX"
                      /\ priority(elts[j].name) = prio } }

\* _splitOp, STEP 2: the for loop at index n (from 1), n >= 2
RECURSIVE splitLoop(_, _, _, _, _, _)
splitLoop(elts, top, n, tmp, chunksOut, chunkIsTop) ==
  IF n > Len(elts) THEN [ chunks |-> chunksOut, isTop |-> chunkIsTop ]
  ELSE IF ((n - 1) \in top) # (n \in top) THEN
    IF n = Len(elts) THEN
      splitLoop(elts, top, n + 1, tmp,
                chunksOut \o << tmp, << elts[n] >> >>,
                chunkIsTop \o << (n - 1) \in top, n \in top >>)
    ELSE
      splitLoop(elts, top, n + 1, << elts[n] >>,
                Append(chunksOut, tmp), Append(chunkIsTop, (n - 1) \in top))
  ELSE
    IF n = Len(elts) THEN
      splitLoop(elts, top, n + 1, Append(tmp, elts[n]),
                Append(chunksOut, Append(tmp, elts[n])),
                Append(chunkIsTop, n \in top))
    ELSE
      splitLoop(elts, top, n + 1, Append(tmp, elts[n]),
                chunksOut, chunkIsTop)

\* _splitOp(elts, priority): the chunks and their flags, or the
\* IndexError of isTopElement[n+1] when the last node is a top operator
splitOp(elts, prio) ==
  IF (Len(elts) + 1) \in topIndices(elts, prio) THEN
    [ status |-> "crash", chunks |-> <<>>, isTop |-> <<>> ]
  ELSE
    Only({ [ status |-> "done", chunks |-> r.chunks, isTop |-> r.isTop ]
           : r \in { IF elts = <<>> THEN [ chunks |-> <<>>, isTop |-> <<>> ]
                     ELSE splitLoop(elts, topIndices(elts, prio), 2,
                                    << elts[1] >>, <<>>, <<>>) } })

\* STEP 3 making a Macroleaf of every chunk
RECURSIVE mergeChunksAllMacro(_, _)
mergeChunksAllMacro(chunks, chunkNeedsMacro) ==
  IF chunks = <<>> THEN <<>>
  ELSE << Macroleaf("id", Head(chunks)).node >>
       \o mergeChunksAllMacro(Tail(chunks), Tail(chunkNeedsMacro))

\* STEP 3 putting each chunk before the new stack
RECURSIVE mergeChunksPrepend(_, _)
mergeChunksPrepend(chunks, chunkNeedsMacro) ==
  IF chunks = <<>> THEN <<>>
  ELSE mergeChunksPrepend(Tail(chunks), Tail(chunkNeedsMacro))
       \o (IF Head(chunkNeedsMacro) THEN << Macroleaf("id", Head(chunks)).node >>
           ELSE Head(chunks))

\* nest, STEP 3: the new stack made of the chunks
RECURSIVE mergeChunks(_, _)
mergeChunks(chunks, chunkNeedsMacro) ==
  IF chunks = <<>> THEN <<>>
  ELSE (IF Head(chunkNeedsMacro) THEN << Macroleaf("id", Head(chunks)).node >>
        ELSE Head(chunks))
       \o mergeChunks(Tail(chunks), Tail(chunkNeedsMacro))

\* One iteration of the while loop that regroups when it gets any chunk
nestIterationMoreChunks(stk) ==
  Only({ IF sp.status = "crash" THEN [ status |-> "crash", stack |-> stk ]
         ELSE [ status |-> "done",
                stack  |-> IF Len(sp.chunks) > 2
                           THEN mergeChunks(sp.chunks, sp.isTop) ELSE stk ]
         : sp \in { splitOp(stk, getPriorityRange(stk)[2]) } })

\* One iteration of the while loop of nest: STEP 2 and STEP 3
nestIteration(stk) ==
  Only({ IF sp.status = "crash" THEN [ status |-> "crash", stack |-> stk ]
         ELSE [ status |-> "done",
                stack  |-> IF Len(sp.chunks) > 1
                           THEN mergeChunks(sp.chunks, sp.isTop) ELSE stk ]
         : sp \in { splitOp(stk, getPriorityRange(stk)[2]) } })

\* while (maxPriority != minPriority): "done" with the flat stack, "crash",
\* or "hang" when an iteration leaves the stack as it was
RECURSIVE nestLoop(_)
nestLoop(stk) ==
  IF getPriorityRange(stk)[1] = getPriorityRange(stk)[2] THEN
    [ status |-> "done", stack |-> stk ]
  ELSE Only({ IF it.status = "crash" THEN it
              ELSE IF it.stack = stk THEN [ status |-> "hang", stack |-> stk ]
              ELSE nestLoop(it.stack)
              : it \in { nestIteration(stk) } })

\* nest, CHECK 2: a (macro)leaf at every even index, an infix at every odd one
followsPattern(stk) ==
  \A k \in 1..Len(stk) :
    IF k % 2 = 1 THEN stk[k].type \in {"NUMBER", "VAR", "CONSTANT", "MACRO"}
    ELSE stk[k].type = "INFIX"

\* nInfix when CHECK 2 has passed
countInfix(stk) == Len(stk) \div 2

\* "At least 2 or more infix" read as more than 2
mightNestOverTwo(nInfix) == nInfix > 2

\* nest: if (nInfix >= 2)
mightNest(nInfix) == nInfix >= 2

RECURSIVE nest(_)

\* Macroleaf.nest: nest on the Binary of every argument, in order, up to
\* the first call that does not return
RECURSIVE nestArgs(_, _)
nestArgs(args, acc) ==
  IF args = <<>> THEN [ status |-> "done", args |-> acc, reported |-> FALSE ]
  ELSE Only({ IF r.status # "done"
              THEN [ status |-> r.status, args |-> acc, reported |-> r.reported ]
              ELSE [ nestArgs(Tail(args), Append(acc, r.stack))
                       EXCEPT !.reported = @ \/ r.reported ]
              : r \in { nest(Head(args)) } })

\* nest: the for loop that calls nest on the macroleaves of the stack
RECURSIVE nestEach(_, _)
nestEach(nodes, acc) ==
  IF nodes = <<>> THEN [ status |-> "done", stack |-> acc, reported |-> FALSE ]
  ELSE IF Head(nodes).type # "MACRO" THEN nestEach(Tail(nodes), Append(acc, Head(nodes)))
  ELSE Only({ IF r.status # "done"
              THEN [ status |-> r.status, stack |-> acc, reported |-> r.reported ]
              ELSE [ nestEach(Tail(nodes), Append(acc, [ Head(nodes) EXCEPT !.args = r.args ]))
                       EXCEPT !.reported = @ \/ r.reported ]
              : r \in { nestArgs(Head(nodes).args, <<>>) } })

\* nest() as one call, as Macroleaf.nest makes it: "done", "exit" (CHECK 2),
\* "crash" or "hang", the stack, whether an [ERROR] was printed
nest(stk) ==
  IF ~followsPattern(stk) THEN [ status |-> "exit", stack |-> stk, reported |-> TRUE ]
  ELSE Only({ IF m.status # "done" THEN [ m EXCEPT !.stack = stk ]
              ELSE IF mightNest(countInfix(stk)) THEN
                Only({ [ status |-> l.status, stack |-> l.stack,
                         reported |-> m.reported \/ Len(stk) % 2 = 0 ]
                       : l \in { nestLoop(m.stack) } })
              ELSE [ m EXCEPT !.reported = @ \/ Len(stk) % 2 = 0 ]
              : m \in { nestEach(stk, <<>>) } })

\* Binary(tokenList): __init__ as one call
Binary(toks) ==
  IF Len(toks) >= 1 THEN
    Only({ IF ~b.arityOk THEN
             [ status |-> "failed", stack |-> b.stack, reported |-> TRUE ]
           ELSE Only({ [ status |-> r.status,
                         stack |-> IF r.status = "done" THEN r.stack ELSE b.stack,
                         reported |-> b.reported \/ r.reported ]
                       : r \in { minusAsOpp(explicitZeros(b.stack)) } })
           : b \in { buildStack(toks) } })
  ELSE [ status |-> "done", stack |-> <<>>, reported |-> FALSE ]

\* The token lists of the Binaries that nest is called on
NestTokens ==
  { Tok("NUMBER", "2"), Tok("INFIX", "+"), Tok("INFIX", "*"), Tok("INFIX", "^") }

FlatLists(max) == UNION { [1..k -> NestTokens] : k \in 1..max }

NestInputs ==
  FlatLists(MaxFlat)
  \cup { pre \o << Tok("BRKT_OPEN", "(") >> \o w \o << Tok("BRKT_CLOSE", ")") >> \o post :
           pre \in { <<>>, << Tok("NUMBER", "2"), Tok("INFIX", "*") >>,
                     << Tok("NUMBER", "2"), Tok("INFIX", "+"),
                        Tok("NUMBER", "2"), Tok("INFIX", "*") >> },
           w \in FlatLists(MaxGroup),
           post \in { <<>>, << Tok("INFIX", "^"), Tok("NUMBER", "2") >>,
                      << Tok("INFIX", "+"), Tok("NUMBER", "2") >> } }
  \cup { w \o << Tok("BRKT_CLOSE", ")") >> : w \in FlatLists(MaxGroup) }

\* A Binary that __init__ has returned, before nest is called on it
InitNest ==
  /\ tokenList \in NestInputs
  /\ Binary(tokenList).status = "done"
  /\ stack = Binary(tokenList).stack
  /\ reported = Binary(tokenList).reported
  /\ remainder = <<>>
  /\ pc = "nest"
  /\ consumed = <<>>
  /\ returned = <<>>
  /\ lookUpTable = <<>>
  /\ drawn = <<>>
  /\ value = <<>>
  /\ output = <<>>
  /\ output2 = <<>>
  /\ src = <<>>
  /\ inputStr = <<>>

\* nest, up to the while loop: the two checks, the calls on the
\* macroleaves, the first priority range
NestEnter ==
  /\ pc = "nest"
  /\ IF ~followsPattern(stack) THEN
       /\ pc' = "exit"
       /\ reported' = TRUE
       /\ stack' = stack
     ELSE \E m \in { nestEach(stack, <<>>) } :
       /\ reported' = (reported \/ m.reported \/ Len(stack) % 2 = 0)
       /\ stack' = IF m.status = "done" THEN m.stack ELSE stack
       /\ pc' = IF m.status # "done" THEN m.status
                ELSE IF /\ mightNest(countInfix(stack))
                        /\ getPriorityRange(m.stack)[1] # getPriorityRange(m.stack)[2]
                     THEN "nestWhile"
                     ELSE "nested"
  /\ UNCHANGED <<tokenList, remainder, lexVars, expVars, conVars, evalVars>>

\* nest, one iteration of the while loop and its test
NestIterate ==
  /\ pc = "nestWhile"
  /\ \E it \in { nestIteration(stack) } :
       /\ stack' = it.stack
       /\ pc' = IF it.status = "crash" THEN "crash"
                ELSE IF getPriorityRange(it.stack)[1] = getPriorityRange(it.stack)[2]
                     THEN "nested"
                     ELSE "nestWhile"
  /\ UNCHANGED <<tokenList, remainder, reported, lexVars, expVars, conVars, evalVars>>

NextNest == NestEnter \/ NestIterate

SpecNest == InitNest /\ [][NextNest]_vars

\* A call that has been made goes on running
SpecNestFair == SpecNest /\ WF_vars(NextNest)

-----------------------------------------------------------------------------
(* Properties of nest *)

\* The infix operators of the stack share one priority, and so do those of
\* the Binary of every argument of every Macroleaf below it
RECURSIVE OnePriority(_)
OnePriority(stk) ==
  /\ Cardinality(Priorities(stk)) <= 1
  /\ \A k \in 1..Len(stk) :
       \A a \in 1..Len(stk[k].args) : OnePriority(stk[k].args[a])

\* The depth of the Macroleaves of a stack
RECURSIVE Depth(_)
Depth(stk) ==
  SetMax({0} \cup UNION { { 1 + Depth(stk[k].args[a]) : a \in 1..Len(stk[k].args) } :
                            k \in 1..Len(stk) })

\* C12: when nest has returned on a well-formed Binary, the infix operators
\* of its stack all have the same priority, and so have those of the stack
\* of every Binary nested in a Macroleaf, the "id" groups of nest included.
C12_NestedToOnePriority ==
  (pc = "nested" /\ Alternates(Binary(tokenList).stack)) => OnePriority(stack)

C12_Witness ==
  /\ pc = "nested"
  /\ Alternates(Binary(tokenList).stack)
  /\ Cardinality(Priorities(Binary(tokenList).stack)) = 3
  /\ Depth(stack) >= 2
  /\ OnePriority(stack)

\* C13: on a well-formed Binary nest returns, and every iteration of its
\* while loop leaves fewer distinct operator priorities in the stack, with
\* no operator that was not there.
C13_NestTerminates ==
  /\ [][(pc = "nestWhile" /\ Alternates(stack)) =>
          /\ pc' \in {"nestWhile", "nested"}
          /\ Priorities(stack') \subseteq Priorities(stack)
          /\ Cardinality(Priorities(stack')) < Cardinality(Priorities(stack))]_vars
  /\ (pc = "nest" /\ Alternates(stack)) ~> (pc = "nested")

C13_Witness ==
  /\ pc = "nested"
  /\ Alternates(Binary(tokenList).stack)
  /\ Cardinality(Priorities(Binary(tokenList).stack)) = 3
  /\ Cardinality(Priorities(stack)) = 1
  /\ Len(stack) >= 3

-----------------------------------------------------------------------------
(* Properties of the construction *)

\* Every Macroleaf of the stack, at every depth, has the number of
\* arguments that Token.FUNCTIONS declares for its function
RECURSIVE ArityRespected(_)
ArityRespected(stk) ==
  \A k \in 1..Len(stk) :
    stk[k].type = "MACRO" =>
      /\ Len(stk[k].args) = (IF stk[k].name \in {"Q", "logN"} THEN 2 ELSE 1)
      /\ \A a \in 1..Len(stk[k].args) : ArityRespected(stk[k].args[a])

EndsWithInfixOrComma(toks) ==
  toks # <<>> /\ toks[Len(toks)].type \in {"INFIX", "COMMA"}

\* C15 as stated: a token list that ends with an infix operator or a comma
\* makes the construction fail; __init__ returns no Binary for it.
C15_TrailingRejected ==
  EndsWithInfixOrComma(tokenList) => pc # "balanced"

-----------------------------------------------------------------------------
(* Binary.setVariables and Binary.eval *)

MaxEval == 5     \* an evaluated expression has at most MaxEval tokens

\* Token.value of a number or a constant
leafValue(leaf) ==
  IF leaf.name = "0" THEN 0 ELSE IF leaf.name = "2" THEN 2 ELSE 3

RECURSIVE evalBinary(_, _)

\* Macroleaf.eval: eval on the Binary of every argument, from the last to
\* the first, up to the first call that raises
RECURSIVE evalArgs(_, _)
evalArgs(args, log) ==
  IF args = <<>> THEN [ status |-> "evaluated", drawn |-> log ]
  ELSE Only({ IF r.status # "evaluated" THEN r
              ELSE evalArgs(SubSeq(args, 1, Len(args) - 1), r.drawn)
              : r \in { evalBinary(args[Len(args)], log) } })

\* _evalLeaf(leaf): what it returns (None when it falls off a branch), the
\* leaves read so far, whether it printed [INTERNAL ERROR]
evalLeaf(leaf, log) ==
  IF leaf.type \in {"CONSTANT", "NUMBER"} THEN
    [ status |-> "evaluated", value |-> leafValue(leaf),
      drawn |-> Append(log, leaf.name), reported |-> FALSE ]
  ELSE IF leaf.type = "VARIABLE" THEN
    [ status |-> "evaluated", value |-> None, drawn |-> log, reported |-> FALSE ]
  ELSE IF leaf.type = "MACRO" THEN
    Only({ [ status |-> r.status, value |-> None, drawn |-> r.drawn, reported |-> FALSE ]
           : r \in { evalArgs(leaf.args, log) } })
  ELSE
    [ status |-> "evaluated", value |-> None, drawn |-> log, reported |-> TRUE ]

\* eval(): _evalOp takes one parameter, leaf, and is called with op,
\* leftOperand and rightOperand: TypeError; the output of _evalLeaf is
\* assigned and not returned
evalBinary(stk, log) ==
  IF Len(stk) > 1 THEN [ status |-> "typeError", drawn |-> log, reported |-> FALSE ]
  ELSE IF stk = <<>> THEN [ status |-> "indexError", drawn |-> log, reported |-> FALSE ]
  ELSE Only({ [ status |-> r.status, drawn |-> r.drawn, reported |-> r.reported ]
              : r \in { evalLeaf(stk[1], log) } })

EvalTokens ==
  { Tok("NUMBER", "2"), Tok("VAR", "x"), Tok("INFIX", "+"), Tok("INFIX", "*") }

EvalInputs ==
  UNION { [1..k -> EvalTokens] : k \in 1..MaxEval }
  \cup { << Tok("BRKT_OPEN", "("), t, Tok("BRKT_CLOSE", ")") >> : t \in EvalTokens }

\* The tables given to setVariables
Tables == { [ n \in {} |-> 0 ], [ n \in {"x"} |-> 3 ], [ n \in {"x", "y"} |-> 3 ] }

\* A Binary that __init__ and nest have returned
InitEval ==
  /\ tokenList \in EvalInputs
  /\ Binary(tokenList).status = "done"
  /\ nest(Binary(tokenList).stack).status = "done"
  /\ stack = nest(Binary(tokenList).stack).stack
  /\ reported = (Binary(tokenList).reported \/ nest(Binary(tokenList).stack).reported)
  /\ remainder = <<>>
  /\ pc = "folded"
  /\ consumed = <<>>
  /\ returned = <<>>
  /\ lookUpTable = [ n \in {} |-> 0 ]
  /\ drawn = <<>>
  /\ value = None
  /\ output = <<>>
  /\ output2 = <<>>
  /\ src = <<>>
  /\ inputStr = <<>>

\* setVariables(variables): the name lookUpTable of line 607 is not
\* defined, NameError at the first Macroleaf of the stack
SetVariables ==
  /\ pc = "folded"
  /\ \E variables \in Tables : lookUpTable' = variables
  /\ pc' = IF \E k \in 1..Len(stack) : stack[k].type = "MACRO"
           THEN "nameError" ELSE "set"
  /\ UNCHANGED <<tokenList, drawn, value, binVars, lexVars, expVars, conVars>>

\* eval()
Eval ==
  /\ pc \in {"folded", "set"}
  /\ \E r \in { evalBinary(stack, <<>>) } :
       /\ pc' = r.status
       /\ drawn' = r.drawn
       /\ reported' = r.reported
  /\ value' = None
  /\ UNCHANGED <<tokenList, lookUpTable, stack, remainder, lexVars, expVars, conVars>>

NextEval == SetVariables \/ Eval

SpecEval == InitEval /\ [][NextEval]_vars

-----------------------------------------------------------------------------
(* Properties of eval *)

\* The step is a call of eval
EvalCalled == pc \in {"folded", "set"} /\ pc' \notin {"folded", "set", "nameError"}

Reverse(q) == [ k \in 1..Len(q) |-> q[Len(q) + 1 - k] ]

\* The names of the operands of a stack, from left to right
OperandNames(stk) ==
  [ k \in 1..((Len(stk) + 1) \div 2) |-> stk[2 * k - 1].name ]

Declared(leaf) == leaf.type # "VAR" \/ leaf.name \in DOMAIN lookUpTable

ValueOf(leaf) ==
  IF leaf.type = "VAR" THEN lookUpTable[leaf.name] ELSE leafValue(leaf)

\* L1 op1 (L2 op2 (... Ln)) for a stack of leaves, "+" and "*"
RECURSIVE RightFold(_)
RightFold(stk) ==
  IF Len(stk) = 1 THEN ValueOf(stk[1])
  ELSE IF stk[2].name = "+" THEN ValueOf(stk[1]) + RightFold(SubSeq(stk, 3, Len(stk)))
  ELSE ValueOf(stk[1]) * RightFold(SubSeq(stk, 3, Len(stk)))

LeavesOnly(stk) ==
  \A k \in 1..Len(stk) : stk[k].type \in {"NUMBER", "VAR", "INFIX"} /\ Declared(stk[k])

\* C16 as stated, for a folded stack of declared leaves: eval of
\* L1 op1 L2 ... Ln, n > 1, evaluates Ln first and L1 last and returns
\* L1 op1 (L2 op2 (... Ln)).
C16_RightmostFirst ==
  [][(EvalCalled /\ Len(stack) > 1 /\ Alternates(stack) /\ OnePriority(stack)
        /\ LeavesOnly(stack)) =>
       /\ pc' = "evaluated"
       /\ drawn' = Reverse(OperandNames(stack))
       /\ value' = RightFold(stack)]_vars

\* C17 as stated, for the Binary of one variable leaf: eval fails with an
\* undeclared-variable error when the name is not in the table, and gives
\* the value of the table when it is.
C17_VariableLookedUp ==
  [][(EvalCalled /\ Len(stack) = 1 /\ stack[1].type = "VAR") =>
       IF stack[1].name \in DOMAIN lookUpTable
       THEN pc' = "evaluated" /\ value' = lookUpTable[stack[1].name]
       ELSE pc' = "undeclared"]_vars

-----------------------------------------------------------------------------
(* The consume functions called on their own *)

MaxStr == 4      \* a string given to a consume function has at most MaxStr characters

ConsumeChars == {"1", ".", "x", "_", "p", "i", "d", "n", "f", "-"}

ConsumeInputs == UNION { [1..k -> ConsumeChars] : k \in 1..MaxStr }

InitConsume ==
  /\ inputStr \in ConsumeInputs
  /\ src = inputStr
  /\ pc = "consume"
  /\ consumed = <<>>
  /\ returned = <<>>
  /\ tokenList = <<>>
  /\ output = <<>>
  /\ output2 = <<>>
  /\ stack = <<>>
  /\ remainder = <<>>
  /\ reported = FALSE
  /\ lookUpTable = <<>>
  /\ drawn = <<>>
  /\ value = <<>>

ConsumeNumber ==
  /\ pc = "consume"
  /\ consumed' = consumeNumber(inputStr)
  /\ pc' = "number"
  /\ UNCHANGED <<tokenList, returned, lexVars, expVars, binVars, evalVars>>

ConsumeConst ==
  /\ pc = "consume"
  /\ consumed' = consumeConst(inputStr)
  /\ pc' = "const"
  /\ UNCHANGED <<tokenList, returned, lexVars, expVars, binVars, evalVars>>

ConsumeVar ==
  /\ pc = "consume"
  /\ consumed' = consumeVar(inputStr)
  /\ pc' = "var"
  /\ UNCHANGED <<tokenList, returned, lexVars, expVars, binVars, evalVars>>

NextConsume == ConsumeNumber \/ ConsumeConst \/ ConsumeVar

SpecConsume == InitConsume /\ [][NextConsume]_vars

-----------------------------------------------------------------------------
(* Properties of the consume functions *)

Prefix(s, n) == SubSeq(s, 1, n)
Suffix(s, n) == SubSeq(s, n + 1, Len(s))

\* Digits with at most one ".", not empty, not a lone "."
IsNumberLiteral(p) ==
  /\ p # <<>> /\ p # << "." >>
  /\ \A k \in 1..Len(p) : p[k] \in Digits \cup {"."}
  /\ Cardinality({ k \in 1..Len(p) : p[k] = "." }) <= 1

\* C18 as stated: consumeNumber(s) returns the longest prefix of s that is
\* a number literal, ".34" included, with the rest of s; ("", s) when no
\* prefix is a number.
C18_LongestNumber ==
  pc = "number" =>
    LET n == SetMax({0} \cup { k \in 1..Len(inputStr) : IsNumberLiteral(Prefix(inputStr, k)) })
    IN consumed = << Prefix(inputStr, n), Suffix(inputStr, n) >>

\* The lengths of the constants that start s and are followed by the end
\* of s or by a character that is neither a letter nor "_"
ConstantEnds(s) ==
  { k \in 1..Len(s) :
      /\ Prefix(s, k) \in { <<"p","i">>, <<"i">>, <<"e","p","s">>, <<"i","n","f">> }
      /\ (k = Len(s) \/ (s[k + 1] \notin Letters /\ s[k + 1] # "_")) }

\* C19: consumeConst(s) returns (c, rest) with s = c + rest when s starts
\* with a constant c followed by the end of the input or by a character
\* that is neither a letter nor "_", c the longest such constant; in every
\* other case it returns ("", s).
C19_ConstantDelimited ==
  pc = "const" =>
    IF ConstantEnds(inputStr) # {}
    THEN consumed = << Prefix(inputStr, SetMax(ConstantEnds(inputStr))),
                       Suffix(inputStr, SetMax(ConstantEnds(inputStr))) >>
    ELSE consumed = << <<>>, inputStr >>

C19_Witness ==
  /\ pc = "const"
  /\ Len(inputStr) >= 3
  /\ inputStr[1] = "p" /\ inputStr[2] = "i" /\ inputStr[3] = "_"
  /\ consumed = << <<>>, inputStr >>

\* The length of the longest prefix of s made of letters, digits and "_"
NameLength(s) ==
  SetMax({0} \cup { k \in 1..Len(s) :
                      \A j \in 1..k : s[j] \in Letters \cup Digits \cup {"_"} })

\* The places k where a digit run starts right after s[k] and runs into a "."
DecimalStarts(s) ==
  { k \in 1..(Len(s) - 1) :
      /\ s[k + 1] \in Digits /\ s[k] \notin Digits
      /\ \E e \in (k + 2)..Len(s) :
           /\ s[e] = "."
           /\ \A j \in (k + 1)..(e - 1) : s[j] \in Digits }

\* The length of the variable name that starts s
VarLength(s) ==
  SetMin({ NameLength(s) } \cup { k \in DecimalStarts(s) : k <= NameLength(s) })

-----------------------------------------------------------------------------
(* Properties of the construction: the remainder and the rejected inputs *)

\* C21 as stated: when the construction of a top-level Binary is complete
\* its remainder is empty; a closing bracket in excess or a comma outside
\* a function call is never accepted with the tokens after it left over.
C21_RemainderEmpty ==
  pc = "balanced" => remainder = <<>>

CountType(toks, n, type) ==
  Cardinality({ j \in 1..n : toks[j].type = type })

\* The index of the first comma or closing bracket of toks that is inside
\* no function call and no parenthesis, 0 when there is none
FirstStop(toks) ==
  SetMin({ Len(toks) + 1 } \cup
         { k \in 1..Len(toks) :
             /\ toks[k].type \in {"COMMA", "BRKT_CLOSE"}
             /\ CountType(toks, k - 1, "BRKT_OPEN") = CountType(toks, k - 1, "BRKT_CLOSE") })
  % (Len(toks) + 1)

\* The tokens that a stack was built from, every Macroleaf closed
RECURSIVE Unbuild(_)
RECURSIVE UnbuildArgs(_)
UnbuildArgs(args) ==
  IF args = <<>> THEN <<>>
  ELSE Unbuild(Head(args))
       \o (IF Len(args) > 1 THEN << Tok("COMMA", ",") >> ELSE <<>>)
       \o UnbuildArgs(Tail(args))

Unbuild(stk) ==
  IF stk = <<>> THEN <<>>
  ELSE (IF Head(stk).type # "MACRO" THEN << Head(stk) >>
        ELSE (IF Head(stk).name = "id" THEN <<>>
              ELSE << Tok("FUNCTION", Head(stk).name) >>)
             \o << Tok("BRKT_OPEN", "(") >>
             \o UnbuildArgs(Head(stk).args)
             \o << Tok("BRKT_CLOSE", ")") >>)
       \o Unbuild(Tail(stk))

\* C22: _buildStack stops at the first comma or closing bracket that is
\* inside no function call and no parenthesis; the stack holds the nodes
\* built from the tokens before it and the remainder is the list of the
\* tokens after it.
C22_StopsAtSeparator ==
  (pc = "built" /\ FirstStop(tokenList) > 0) =>
    /\ Unbuild(stack) = SubSeq(tokenList, 1, FirstStop(tokenList) - 1)
    /\ remainder = SubSeq(tokenList, FirstStop(tokenList) + 1, Len(tokenList))

C22_Witness ==
  /\ pc = "built"
  /\ FirstStop(tokenList) > 1
  /\ FirstStop(tokenList) < Len(tokenList)
  /\ \E k \in 1..Len(stack) : stack[k].type = "MACRO"
  /\ remainder # <<>>

\* C23 as stated: a Binary whose sequence starts with an infix operator
\* other than "-" is rejected with a construction error.
C23_LeadingInfixRejected ==
  (tokenList # <<>> /\ tokenList[1].type = "INFIX" /\ tokenList[1].name # "-")
    => pc \notin {"zeroed", "balanced"}

\* Two infix operators side by side that are not accepted: the second is
\* not "-", or both are "-"
HasRejectedPair(stk) ==
  \E k \in 1..(Len(stk) - 1) :
    /\ stk[k].type = "INFIX" /\ stk[k + 1].type = "INFIX"
    /\ (stk[k + 1].name # "-" \/ stk[k].name = "-")

\* C24 as stated: _minusAsOpp returns or stops on every stack, and stops
\* with a fatal error on a stack with two infix operators side by side of
\* which the second is not "-", or with a chained minus.
C24_OppStopsOnRejected ==
  [][pc = "zeroed" =>
       /\ pc' # "hang"
       /\ HasRejectedPair(stack) => pc' = "exit"]_vars

\* Some argument of some Macroleaf of stk, at any depth, is an expression
\* that still holds "^", "-", X
RECURSIVE PowerMinusLeft(_)
PowerMinusLeft(stk) ==
  \E k \in 1..Len(stk) :
    /\ stk[k].type = "MACRO"
    /\ \E a \in 1..Len(stk[k].args) :
         \/ BalancedExpression(stk[k].args[a]) /\ HasPowerMinus(stk[k].args[a])
         \/ PowerMinusLeft(stk[k].args[a])

\* C25 as stated: when _balanceMinus has returned, _minusAsOpp has been
\* applied to the arguments of every Macroleaf, whatever the number of
\* nodes of the stack that holds it: no argument still holds "^", "-", X.
C25_ArgumentsBalanced ==
  pc = "balanced" => ~PowerMinusLeft(stack)

-----------------------------------------------------------------------------
(* _splitOp called on the stack of a Binary with its highest priority, as
   the while loop of nest calls it *)

InitSplit ==
  /\ tokenList \in NestInputs
  /\ Binary(tokenList).status = "done"
  /\ stack = Binary(tokenList).stack
  /\ reported = Binary(tokenList).reported
  /\ remainder = <<>>
  /\ pc = "split"
  /\ consumed = <<>>
  /\ returned = <<>>
  /\ lookUpTable = <<>>
  /\ drawn = <<>>
  /\ value = <<>>
  /\ output = <<>>
  /\ output2 = <<>>
  /\ src = <<>>
  /\ inputStr = <<>>

\* (chunks, chunkNeedsMacro) = self._splitOp(self.stack, maxPriority)
SplitOp ==
  /\ pc = "split"
  /\ \E sp \in { splitOp(stack, getPriorityRange(stack)[2]) } :
       /\ returned' = << sp.chunks, sp.isTop >>
       /\ pc' = IF sp.status = "crash" THEN "crash" ELSE "splitted"
  /\ UNCHANGED <<tokenList, consumed, lexVars, expVars, binVars, evalVars>>

NextSplit == SplitOp

SpecSplit == InitSplit /\ [][NextSplit]_vars

-----------------------------------------------------------------------------
(* Properties of nest and _splitOp *)

\* C26 as stated: nest called on a stack with an even number of nodes, or
\* on a stack that does not alternate operands and operators, stops with
\* an error before it regroups anything and leaves the stack as it was.
C26_MalformedAborts ==
  [][(pc = "nest" /\ stack # <<>> /\ (Len(stack) % 2 = 0 \/ ~followsPattern(stack))) =>
       (pc' = "exit" /\ stack' = stack)]_vars

\* An odd number of nodes, operands and operators in turn, one operator
\* at least
WellFormed(seq) ==
  Len(seq) % 2 = 1 /\ Len(seq) >= 3 /\ followsPattern(seq)

OperatorsOf(seq) ==
  { priority(seq[k].name) : k \in { j \in 1..Len(seq) : seq[j].type = "INFIX" } }

\* The index in seq of the first node of chunk i
ChunkStart(chunks, i) == Len(Flatten(SubSeq(chunks, 1, i - 1))) + 1

\* C27: _splitOp(seq, p), p the highest priority of a well-formed seq,
\* returns chunks that concatenate to seq; a flagged chunk is a run
\* operand (op operand)+ whose operators all have the priority p, with no
\* operator of priority p next to it; no other chunk holds an operator
\* of priority p.
C27_ChunksOfTopRuns ==
  (pc = "splitted" /\ WellFormed(stack)) =>
    LET p == getPriorityRange(stack)[2]
        chunks == returned[1]
        chunkIsTop == returned[2]
    IN /\ Flatten(chunks) = stack
       /\ Len(chunkIsTop) = Len(chunks)
       /\ \A i \in 1..Len(chunks) :
            IF chunkIsTop[i] THEN
              /\ WellFormed(chunks[i])
              /\ OperatorsOf(chunks[i]) = {p}
              /\ ChunkStart(chunks, i) > 1 =>
                    priority(stack[ChunkStart(chunks, i) - 1].name) # p
              /\ ChunkStart(chunks, i + 1) <= Len(stack) =>
                    priority(stack[ChunkStart(chunks, i + 1)].name) # p
            ELSE p \notin OperatorsOf(chunks[i])

C27_Witness ==
  /\ pc = "splitted"
  /\ WellFormed(stack)
  /\ \E i \in 2..(Len(returned[1]) - 1) : returned[2][i]
  /\ \E i \in 1..Len(returned[1]) : ~returned[2][i] /\ Len(returned[1][i]) >= 2

\* C28: an iteration of the while loop of nest that starts from a stack of
\* odd length alternating operands and operators at every depth leaves
\* such a stack, the stack of the Binary of every new "id" Macroleaf
\* included.
C28_IterationKeepsAlternation ==
  [][(pc = "nestWhile" /\ Alternates(stack)) => Alternates(stack')]_vars

C28_Witness ==
  /\ pc \in {"nestWhile", "nested"}
  /\ Alternates(stack)
  /\ Len(stack) < Len(Binary(tokenList).stack)
  /\ Depth(stack) >= 2

\* new is old with some of its runs of nodes grouped in "id" Macroleaves
\* of one argument, at any depth
RECURSIVE Regrouped(_, _)
Regrouped(new, old) ==
  IF new = <<>> THEN old = <<>>
  ELSE
    \/ /\ old # <<>>
       /\ Head(new).type # "MACRO"
       /\ Head(new) = Head(old)
       /\ Regrouped(Tail(new), Tail(old))
    \/ /\ old # <<>>
       /\ Head(new).type = "MACRO" /\ Head(old).type = "MACRO"
       /\ Head(new).name = Head(old).name
       /\ Len(Head(new).args) = Len(Head(old).args)
       /\ \A a \in 1..Len(Head(new).args) :
            Regrouped(Head(new).args[a], Head(old).args[a])
       /\ Regrouped(Tail(new), Tail(old))
    \/ /\ Head(new).type = "MACRO" /\ Head(new).name = "id"
       /\ Len(Head(new).args) = 1
       /\ \E n \in 3..Len(old) :
            /\ Regrouped(Head(new).args[1], SubSeq(old, 1, n))
            /\ Regrouped(Tail(new), SubSeq(old, n + 1, Len(old)))

\* C29: when nest has returned, its stack is the stack it was called on
\* with runs of nodes grouped in "id" Macroleaves: ungrouping them gives
\* the nodes back in their order; a stack with fewer than two operators,
\* or with operators of one priority, keeps its nodes.
C29_OnlyGroups ==
  pc = "nested" =>
    /\ Regrouped(stack, Binary(tokenList).stack)
    /\ (countInfix(Binary(tokenList).stack) < 2
          \/ Cardinality(Priorities(Binary(tokenList).stack)) <= 1)
         => SameNodes(stack, Binary(tokenList).stack)

C29_Witness ==
  /\ pc = "nested"
  /\ Alternates(Binary(tokenList).stack)
  /\ Len(stack) < Len(Binary(tokenList).stack)
  /\ \E k \in 1..Len(stack) :
       /\ stack[k].type = "MACRO" /\ stack[k].name = "id"
       /\ \E j \in 1..Len(stack[k].args[1]) : stack[k].args[1][j].type = "MACRO"

-----------------------------------------------------------------------------
(* Properties of setVariables *)

\* C30 as stated: setVariables(v) stores v and completes without an error,
\* whether the stack holds a Macroleaf or not.
C30_SetVariablesCompletes ==
  [][(pc = "folded" /\ pc' \in {"set", "nameError"}) =>
       (pc' = "set" /\ lookUpTable' \in Tables)]_vars

====
